---- MODULE Spec2Model ----
(***************************************************************************)
(* A model of litellm's response-normalisation core:                       *)
(*   litellm/litellm_core_utils/core_helpers.py       (map_finish_reason)  *)
(*   litellm/litellm_core_utils/llm_response_utils.py (the converters)     *)
(*                                                                         *)
(* Python values are modelled as follows.  A str is a TLA+ string.  A dict *)
(* is a function whose DOMAIN is the set of its keys.  A list is a         *)
(* sequence.  A value whose Python type varies (str, int, dict, None) is a *)
(* tagged record [t |-> <type>, v |-> <value>].                            *)
(***************************************************************************)
EXTENDS Integers, Sequences, FiniteSets, TLC

VARIABLES
    pc,                 \* position of the caller: which call has been made
    finish_reason,      \* map_finish_reason: the argument
    mapped,             \* map_finish_reason(finish_reason)
    remapped,           \* map_finish_reason(mapped)
    calls_in,           \* _handle_invalid_parallel_tool_calls: the list as passed
    tool_calls,         \* the caller's list object (rewritten in place)
    ret,                \* what _handle_invalid_parallel_tool_calls returned
    response_object,    \* convert_to_model_response_object: the raw payload
    model_response_object,  \* the caller-supplied target object (mutated in place)
    target_in,          \* the target as it was when the call was made
    response_type,      \* "completion", "embedding", ...
    stream,             \* the streaming flag
    start_time,         \* start_time argument
    end_time,           \* end_time argument
    hidden_params,      \* the caller's hidden_params mapping
    hidden_params_in,   \* that mapping as it was when the call was made
    _response_headers,  \* the raw header mapping
    convert_tool_call_to_json_mode, \* the JSON-mode flag
    result,             \* how the call ended: returned value or raised error
    stream_payload,     \* the caller's payload mapping handed to the two adapters
    payload_in,         \* that payload as it was before any adapter ran
    sync_pc,            \* convert_to_streaming_response: position of the generator
    sync_result,        \* what its first next() gave: a response or an exception
    async_pc,           \* convert_to_streaming_response_async: position
    async_result        \* what its first __anext__() gave

mapVars == <<finish_reason, mapped, remapped>>
repairVars == <<calls_in, tool_calls, ret>>
asmVars ==
    <<response_object, model_response_object, target_in, response_type, stream,
      start_time, end_time, hidden_params, hidden_params_in,
      _response_headers, convert_tool_call_to_json_mode, result>>

streamVars ==
    <<stream_payload, payload_in, sync_pc, sync_result, async_pc, async_result>>

vars == <<pc, mapVars, repairVars, asmVars, streamVars>>

(***************************************************************************)
(* Bounds of the model.                                                    *)
(***************************************************************************)
MaxCalls == 3        \* longest tool-call list handed to the repair unit
MaxPacked == 2       \* most pseudo-calls packed in one sentinel call

None == "<None>"     \* Python's None where a str is expected

Min(a, b) == IF a < b THEN a ELSE b

\* Python's s[lo:hi] for 0 <= lo, 0 <= hi (indices past the end are clamped).
PySlice(s, lo, hi) == SubSeq(s, Min(lo, Len(s)) + 1, Min(hi, Len(s)))

\* Python's sep.join(parts).
RECURSIVE Join(_, _)
Join(sep, parts) ==
    IF parts = <<>> THEN ""
    ELSE IF Len(parts) = 1 THEN parts[1]
    ELSE parts[1] \o sep \o Join(sep, Tail(parts))

\* Python's s.startswith(prefix).
StartsWith(s, prefix) ==
    Len(s) >= Len(prefix) /\ SubSeq(s, 1, Len(prefix)) = prefix

(***************************************************************************)
(* core_helpers.map_finish_reason: the if/elif chain, in source order.     *)
(* The first definition is the chain with the anthropic "max_tokens"       *)
(* branch returning the cohere spelling instead of the canonical one.      *)
(***************************************************************************)
map_finish_reason_upper_max_tokens(reason) ==
    IF reason = "stop_sequence" THEN "stop"
    ELSE IF reason = "COMPLETE" THEN "stop"
    ELSE IF reason = "MAX_TOKENS" THEN "length"
    ELSE IF reason = "ERROR_TOXIC" THEN "content_filter"
    ELSE IF reason = "ERROR" THEN "stop"
    ELSE IF reason = "eos_token" \/ reason = "stop_sequence" THEN "stop"
    ELSE IF reason = "FINISH_REASON_UNSPECIFIED" \/ reason = "STOP" THEN "stop"
    ELSE IF reason = "SAFETY" \/ reason = "RECITATION" THEN "content_filter"
    ELSE IF reason = "STOP" THEN "stop"
    ELSE IF reason = "end_turn" \/ reason = "stop_sequence" THEN "stop"
    ELSE IF reason = "max_tokens" THEN "MAX_TOKENS"
    ELSE IF reason = "tool_use" THEN "tool_calls"
    ELSE IF reason = "content_filtered" THEN "content_filter"
    ELSE reason

map_finish_reason(reason) ==
    IF reason = "stop_sequence" THEN "stop"
    ELSE IF reason = "COMPLETE" THEN "stop"
    ELSE IF reason = "MAX_TOKENS" THEN "length"
    ELSE IF reason = "ERROR_TOXIC" THEN "content_filter"
    ELSE IF reason = "ERROR" THEN "stop"
    ELSE IF reason = "eos_token" \/ reason = "stop_sequence" THEN "stop"
    ELSE IF reason = "FINISH_REASON_UNSPECIFIED" \/ reason = "STOP" THEN "stop"
    ELSE IF reason = "SAFETY" \/ reason = "RECITATION" THEN "content_filter"
    ELSE IF reason = "STOP" THEN "stop"
    ELSE IF reason = "end_turn" \/ reason = "stop_sequence" THEN "stop"
    ELSE IF reason = "max_tokens" THEN "length"
    ELSE IF reason = "tool_use" THEN "tool_calls"
    ELSE IF reason = "content_filtered" THEN "content_filter"
    ELSE reason

(***************************************************************************)
(* The strings handed to map_finish_reason: every key of the table, the    *)
(* same keys in the other letter case, the canonical vocabulary, and       *)
(* strings no provider is known to send.                                   *)
(***************************************************************************)
StopInputs ==
    {"stop_sequence", "COMPLETE", "eos_token", "FINISH_REASON_UNSPECIFIED",
     "STOP", "end_turn", "ERROR"}
LengthInputs == {"MAX_TOKENS", "max_tokens"}
ContentFilterInputs == {"ERROR_TOXIC", "SAFETY", "RECITATION", "content_filtered"}
ToolCallsInputs == {"tool_use"}
TableInputs ==
    StopInputs \cup LengthInputs \cup ContentFilterInputs \cup ToolCallsInputs

OtherCaseInputs ==
    {"STOP_SEQUENCE", "complete", "Complete", "EOS_TOKEN",
     "finish_reason_unspecified", "Stop", "END_TURN", "error", "Error",
     "Max_Tokens", "error_toxic", "safety", "recitation", "CONTENT_FILTERED",
     "TOOL_USE", "Tool_Use"}
CanonicalReasons == {"stop", "length", "tool_calls", "content_filter"}
UnknownInputs ==
    {"function_call", "OTHER", "", "null", " stop_sequence", "STOP ",
     "stop_sequences", "max_token", "tool_use_block", "content_filter_results",
     "BLOCKLIST", "PROHIBITED_CONTENT", "SPII", "MALFORMED_FUNCTION_CALL",
     "model_length", "eos", None}
FinishReasonInputs ==
    TableInputs \cup OtherCaseInputs \cup CanonicalReasons \cup UnknownInputs

(***************************************************************************)
(* JSON.  A parameters object is a sequence of <<key, integer>> pairs (a   *)
(* Python dict keeps insertion order).  The arguments of a packed call are *)
(* the object {"tool_uses": [{"recipient_name": r, "parameters": p}, ...]}.*)
(* json.dumps writes ", " between items and ": " after a key.              *)
(***************************************************************************)
Quote(s) == "\"" \o s \o "\""

\* json.dumps of a parameters object.
DumpsParams(p) ==
    "{" \o Join(", ", [i \in 1..Len(p) |->
                          Quote(p[i][1]) \o ": " \o ToString(p[i][2])]) \o "}"

\* json.dumps of one pseudo-call.
DumpsToolUse(u) ==
    "{" \o Quote("recipient_name") \o ": " \o Quote(u.recipient_name) \o ", "
        \o Quote("parameters") \o ": " \o DumpsParams(u.parameters) \o "}"

\* json.dumps of {"tool_uses": uses}.
DumpsToolUses(uses) ==
    "{" \o Quote("tool_uses") \o ": ["
        \o Join(", ", [i \in 1..Len(uses) |-> DumpsToolUse(uses[i])]) \o "]}"

SENTINEL == "multi_tool_use.parallel"

ParamsUniverse == {<<>>, << <<"q", 1>> >>, << <<"city", 2>>, <<"days", 3>> >>}
PseudoCalls ==
    {[recipient_name |-> "functions.get_weather", parameters |-> << <<"q", 1>> >>],
     [recipient_name |-> "get_time", parameters |-> <<>>]}

\* Sequences over S of length at most n.
SeqUpTo(S, n) == UNION {[1..k -> S] : k \in 0..n}

ToolUsesUniverse == SeqUpTo(PseudoCalls, MaxPacked)

\* The argument strings of the model that json.loads accepts.
ParamsJson == {DumpsParams(p) : p \in ParamsUniverse}
ToolUsesJson == {DumpsToolUses(u) : u \in ToolUsesUniverse}
ValidJson == ParamsJson \cup ToolUsesJson

\* json.loads(s) succeeds.
JsonLoadsOk(s) == s \in ValidJson

\* json.loads(s)["tool_uses"] exists / its value: the decoder inverts the
\* encoder on the strings of the model.
HasToolUses(s) == s \in ToolUsesJson
LoadsToolUses(s) == CHOOSE u \in ToolUsesUniverse : DumpsToolUses(u) = s

(***************************************************************************)
(* ChatCompletionMessageToolCall / Function: a typed tool call.            *)
(***************************************************************************)
Function(name, arguments) == [name |-> name, arguments |-> arguments]

ChatCompletionMessageToolCall(id, type, function) ==
    [id |-> id, type |-> type, function |-> function]

(***************************************************************************)
(* _handle_invalid_parallel_tool_calls.                                    *)
(***************************************************************************)
\* Lines 484-485: strip a leading "functions.".
StripFunctionsPrefix(name) ==
    IF StartsWith(name, "functions.")
    THEN SubSeq(name, Len("functions.") + 1, Len(name))
    ELSE name

\* Lines 481-494: the calls one sentinel call expands to.
Expand(tool_call) ==
    LET uses == LoadsToolUses(tool_call.function.arguments)
    IN  [k \in 1..Len(uses) |->
            ChatCompletionMessageToolCall(
                tool_call.id \o "_" \o ToString(k - 1),
                "function",
                Function(StripFunctionsPrefix(uses[k].recipient_name),
                         DumpsParams(uses[k].parameters)))]

\* Lines 474-476, 481: the first loop raises when an argument string is not
\* JSON, or when a sentinel call's arguments hold no "tool_uses".
RepairRaises(calls) ==
    \E i \in 1..Len(calls) :
        \/ ~JsonLoadsOk(calls[i].function.arguments)
        \/ /\ calls[i].function.name = SENTINEL
           /\ ~HasToolUses(calls[i].function.arguments)

\* Lines 473-494: the keys of `replacements`, 0-based and in insertion order.
\* A key exists only once a call was appended to it (defaultdict).
RECURSIVE ReplacementKeys(_, _)
ReplacementKeys(calls, i) ==
    IF i >= Len(calls) THEN <<>>
    ELSE (IF /\ calls[i + 1].function.name = SENTINEL
             /\ Len(Expand(calls[i + 1])) > 0
          THEN <<i>> ELSE <<>>) \o ReplacementKeys(calls, i + 1)

\* Line 501: shift += len(replacement).
ShiftAfter(shift, replacement) == shift + Len(replacement)

\* Lines 496-501: the second loop; `orig` is the list as passed, whose
\* entries the replacements were computed from.
RECURSIVE ApplyReplacements(_, _, _, _)
ApplyReplacements(cur, orig, keys, shift) ==
    IF keys = <<>> THEN cur
    ELSE LET i == Head(keys)
             replacement == Expand(orig[i + 1])
         IN  ApplyReplacements(
                 PySlice(cur, 0, i + shift) \o replacement
                     \o PySlice(cur, i + shift + 1, Len(cur)),
                 orig, Tail(keys), ShiftAfter(shift, replacement))

\* The list the function leaves in place and returns (when it does not raise).
_handle_invalid_parallel_tool_calls(calls) ==
    ApplyReplacements(calls, calls, ReplacementKeys(calls, 0), 0)

(***************************************************************************)
(* Values the variables of the other units hold while one unit is checked. *)
(***************************************************************************)
PyNone == [t |-> "none"]

StreamIdle ==
    /\ stream_payload = PyNone
    /\ payload_in = PyNone
    /\ sync_pc = "idle"
    /\ sync_result = [kind |-> "pending"]
    /\ async_pc = "idle"
    /\ async_result = [kind |-> "pending"]
MapIdle == finish_reason = None /\ mapped = None /\ remapped = None
RepairIdle == calls_in = <<>> /\ tool_calls = <<>> /\ ret = <<>>
AsmIdle ==
    /\ response_object = PyNone
    /\ model_response_object = PyNone
    /\ target_in = PyNone
    /\ response_type = "completion"
    /\ stream = FALSE
    /\ start_time = PyNone
    /\ end_time = PyNone
    /\ hidden_params = PyNone
    /\ hidden_params_in = PyNone
    /\ _response_headers = PyNone
    /\ convert_tool_call_to_json_mode = PyNone
    /\ result = [kind |-> "pending"]

(***************************************************************************)
(* SpecMap: a caller maps a finish reason, then maps the result again.     *)
(***************************************************************************)
InitMap ==
    /\ pc = "map"
    /\ finish_reason \in FinishReasonInputs
    /\ mapped = None
    /\ remapped = None
    /\ RepairIdle
    /\ AsmIdle
    /\ StreamIdle

MapFinishReason ==
    /\ pc = "map"
    /\ mapped' = map_finish_reason(finish_reason)
    /\ pc' = "mapped"
    /\ UNCHANGED <<finish_reason, remapped, repairVars, asmVars, streamVars>>

MapFinishReasonAgain ==
    /\ pc = "mapped"
    /\ remapped' = map_finish_reason(mapped)
    /\ pc' = "remapped"
    /\ UNCHANGED <<finish_reason, mapped, repairVars, asmVars, streamVars>>

NextMap == MapFinishReason \/ MapFinishReasonAgain

SpecMap == InitMap /\ [][NextMap]_vars

(***************************************************************************)
(* SpecRepair: a caller hands a typed tool-call list to the repair unit.   *)
(***************************************************************************)
\* name and arguments of the calls a provider sends: plain calls, sentinel
\* calls packing 0..MaxPacked pseudo-calls, a call whose arguments are not
\* JSON, and a sentinel call whose arguments hold no "tool_uses".
CallBodies ==
    {Function("get_time", DumpsParams(p)) : p \in ParamsUniverse}
    \cup {Function(SENTINEL, DumpsToolUses(u)) : u \in ToolUsesUniverse}
    \cup {Function("get_time", "{'q': 1"), Function(SENTINEL, DumpsParams(<<>>))}

\* The lists of at most n typed calls; the i-th call has id "call_<i>".
ToolCallLists(bodies, n) ==
    {[i \in 1..Len(fs) |->
         ChatCompletionMessageToolCall("call_" \o ToString(i), "function", fs[i])]
     : fs \in SeqUpTo(bodies, n)}

InitRepair ==
    /\ pc = "repair"
    /\ calls_in \in ToolCallLists(CallBodies, MaxCalls)
    /\ tool_calls = calls_in
    /\ ret = <<>>
    /\ MapIdle
    /\ AsmIdle
    /\ StreamIdle

HandleInvalidParallelToolCalls ==
    /\ pc = "repair"
    /\ IF RepairRaises(tool_calls)
       THEN /\ pc' = "repair_raised"
            /\ UNCHANGED <<tool_calls, ret>>
       ELSE /\ pc' = "repaired"
            /\ tool_calls' = _handle_invalid_parallel_tool_calls(tool_calls)
            /\ ret' = tool_calls'
    /\ UNCHANGED <<calls_in, mapVars, asmVars, streamVars>>

NextRepair == HandleInvalidParallelToolCalls

SpecRepair == InitRepair /\ [][NextRepair]_vars

(***************************************************************************)
(* C1, C2: the repair unit.                                                *)
(***************************************************************************)
IsSentinel(call) == call.function.name = SENTINEL

NumSentinels(calls) == Cardinality({i \in 1..Len(calls) : IsSentinel(calls[i])})

\* C1: after the repair unit has run on a list whose arguments are JSON
\* and whose sentinel calls each pack zero or more pseudo-calls (so that it
\* returns), no call of the returned list is named "multi_tool_use.parallel".
C1_NoSentinelAfterRepair ==
    pc = "repaired" =>
        \A i \in 1..Len(ret) : ~IsSentinel(ret[i])

\* The reference of C2: walk the input in order, a sentinel call becomes its
\* expanded calls, any other call is kept.
RECURSIVE Reference(_)
Reference(calls) ==
    IF calls = <<>> THEN <<>>
    ELSE (IF IsSentinel(Head(calls)) THEN Expand(Head(calls)) ELSE <<Head(calls)>>)
         \o Reference(Tail(calls))

RECURSIVE SumExtra(_)
SumExtra(calls) ==
    IF calls = <<>> THEN 0
    ELSE (IF IsSentinel(Head(calls)) THEN Len(Expand(Head(calls))) - 1 ELSE 0)
         + SumExtra(Tail(calls))

\* C2: the returned list is the reference list, and its length is the
\* input's length plus the sum of (N - 1) over the sentinel calls.
C2_RepairEqualsReference ==
    pc = "repaired" =>
        /\ ret = Reference(calls_in)
        /\ Len(ret) = Len(calls_in) + SumExtra(calls_in)

\* C1 and C2 do hold of a list with one sentinel call that packs at least
\* one pseudo-call: the case the spec's example describes.
SingleSentinelRepaired ==
    (/\ pc = "repaired"
     /\ NumSentinels(calls_in) = 1
     /\ \A i \in 1..Len(calls_in) :
            IsSentinel(calls_in[i]) => Len(Expand(calls_in[i])) > 0)
    => /\ ret = Reference(calls_in)
       /\ \A i \in 1..Len(ret) : ~IsSentinel(ret[i])

(***************************************************************************)
(* Python values of varying type, and dicts.                               *)
(***************************************************************************)
PyStr(s) == [t |-> "str", v |-> s]
PyInt(i) == [t |-> "int", v |-> i]
PyDict(d) == [t |-> "dict", v |-> d]
PyList(l) == [t |-> "list", v |-> l]

EmptyDict == [k \in {} |-> PyNone]

IsNone(x) == x.t = "none"

\* bool(x).
Truthy(x) ==
    CASE x.t = "none" -> FALSE
      [] x.t = "str" -> x.v # ""
      [] x.t = "int" -> x.v # 0
      [] x.t = "dict" -> DOMAIN x.v # {}
      [] x.t = "list" -> Len(x.v) > 0
      [] x.t = "bool" -> x.v
      [] OTHER -> TRUE

\* d.get(k) / d.get(k, None) on a dict d.
Get(d, k) == IF k \in DOMAIN d THEN d[k] ELSE PyNone

\* d[k] = v, and setattr(obj, k, v) on an object's attribute dict.
Put(d, k, v) == [x \in DOMAIN d \cup {k} |-> IF x = k THEN v ELSE d[x]]

\* {**a, **b}, and a.update(b).
Merge(a, b) == [x \in DOMAIN a \cup DOMAIN b |-> IF x \in DOMAIN b THEN b[x] ELSE a[x]]

\* An instance of class cls with the attributes attrs.
Obj(cls, attrs) == [t |-> "obj", cls |-> cls, attrs |-> attrs]

\* isinstance(x, cls) for the response classes.
IsInstance(x, cls) == x.t = "obj" /\ x.cls = cls

(***************************************************************************)
(* _get_openai_headers and _set_headers_in_hidden_params.  A header        *)
(* mapping is a function from header names to header values.               *)
(***************************************************************************)
OpenAIHeaderKeys ==
    {"x-ratelimit-limit-requests", "x-ratelimit-remaining-requests",
     "x-ratelimit-limit-tokens", "x-ratelimit-remaining-tokens"}

\* The extractor with the remaining-tokens key left out.
_get_openai_headers_three_keys(headers) ==
    [k \in (OpenAIHeaderKeys \ {"x-ratelimit-remaining-tokens"}) \cap DOMAIN headers
        |-> headers[k]]

_get_openai_headers(headers) ==
    [k \in OpenAIHeaderKeys \cap DOMAIN headers |-> headers[k]]

\* Lines 66-68: every header under "llm_provider-<name>".
LlmResponseHeaders(headers) ==
    [p \in {"llm_provider-" \o k : k \in DOMAIN headers} |->
        headers[CHOOSE k \in DOMAIN headers : "llm_provider-" \o k = p]]

\* hp is a dict here: the caller passes `hidden_params or {}`.
_set_headers_in_hidden_params(hp, headers) ==
    IF hp.t # "none"
    THEN PyDict(Put(hp.v, "additional_headers",
                    PyDict(Merge(LlmResponseHeaders(headers),
                                 _get_openai_headers(headers)))))
    ELSE hp

(***************************************************************************)
(* Lines 109-128: the error-surface check.  An error's message dict is a   *)
(* sequence of <<key, string>> pairs.                                      *)
(***************************************************************************)
\* json.dumps of a dict of strings.
DumpsStrDict(p) ==
    "{" \o Join(", ", [i \in 1..Len(p) |->
                          Quote(p[i][1]) \o ": " \o Quote(p[i][2])]) \o "}"

\* str(x).
Str(x) ==
    CASE x.t = "none" -> "None"
      [] x.t = "str" -> x.v
      [] x.t = "int" -> ToString(x.v)
      [] OTHER -> "<object>"

\* Lines 110-114.
HasErrorSurface(payload) ==
    /\ ~IsNone(payload)
    /\ "error" \in DOMAIN payload.v
    /\ ~IsNone(payload.v["error"])

\* Lines 115-127: the raised exception's attributes.
ErrorArgs(error) ==
    LET isdict == error.t = "dict"
        status == IF isdict /\ "code" \in DOMAIN error.v
                  THEN error.v["code"] ELSE PyInt(422)
        message == IF isdict /\ "message" \in DOMAIN error.v
                   THEN (IF error.v["message"].t = "strdict"
                         THEN DumpsStrDict(error.v["message"].v)
                         ELSE Str(error.v["message"]))
                   ELSE "Error in response object"
    IN  [status_code |-> status, message |-> message]

\* The error test with the default status left in place whatever the error says.
ErrorSurface_default_status(payload) ==
    [kind |-> "raise", wrapped |-> FALSE,
     status_code |-> PyInt(422),
     message |-> ErrorArgs(payload.v["error"]).message]

ErrorSurface(payload) ==
    [kind |-> "raise", wrapped |-> FALSE,
     status_code |-> ErrorArgs(payload.v["error"]).status_code,
     message |-> ErrorArgs(payload.v["error"]).message]

\* Lines 315-318: any exception of the dispatch, caught and re-raised.
WrappedError ==
    [kind |-> "raise", wrapped |-> TRUE,
     status_code |-> PyNone, message |-> "Invalid response object"]

Return(value) == [kind |-> "return", value |-> value]

(***************************************************************************)
(* Lines 146-196: one raw choice becomes one Choices object.               *)
(* A raw choice, its message and a raw tool call are dicts of tagged       *)
(* values; the flag is None or a bool.                                     *)
(***************************************************************************)
PyBool(b) == [t |-> "bool", v |-> b]

\* bool(flag) for the JSON-mode flag.
FlagSet(flag) == flag.t = "bool" /\ flag.v

\* Lines 150-153: ChatCompletionMessageToolCall(**_tc) for each raw call.
TypedToolCalls(raw) ==
    [i \in 1..Len(raw) |->
        LET tc == raw[i].v
            fn == tc["function"].v
        IN  ChatCompletionMessageToolCall(
                tc["id"].v, tc["type"].v,
                Function(fn["name"].v,
                         IF IsNone(fn["arguments"]) THEN None
                         ELSE fn["arguments"].v))]

\* Lines 148-159: the effective tool calls of a message: None when the raw
\* message has none, otherwise the typed list as the repair unit leaves it.
EffectiveToolCalls(message) ==
    LET raw == Get(message, "tool_calls")
    IN  IF IsNone(raw) THEN PyNone
        ELSE PyList(_handle_invalid_parallel_tool_calls(TypedToolCalls(raw.v)))

\* Lines 163-172 deciding on the raw list instead of the repaired one.
JsonModeCoerced_on_raw_list(flag, message) ==
    LET raw == Get(message, "tool_calls")
    IN  /\ FlagSet(flag)
        /\ ~IsNone(raw)
        /\ Len(raw.v) = 1
        /\ ~IsNone(raw.v[1].v["function"].v["arguments"])

\* Lines 163-172: JSON mode applies.
JsonModeCoerced(flag, message) ==
    LET eff == EffectiveToolCalls(message)
    IN  /\ FlagSet(flag)
        /\ ~IsNone(eff)
        /\ Len(eff.v) = 1
        /\ eff.v[1].function.arguments # None

\* The exceptions of the loop body: no "message" (line 148), the repair
\* unit raising (line 154), no "role" when the message is built (line 178).
ChoiceRaises(choice, flag) ==
    \/ "message" \notin DOMAIN choice
    \/ LET message == choice["message"].v
           raw == Get(message, "tool_calls")
       IN  \/ ~IsNone(raw) /\ RepairRaises(TypedToolCalls(raw.v))
           \/ /\ ~(~IsNone(raw) /\ RepairRaises(TypedToolCalls(raw.v)))
              /\ ~JsonModeCoerced(flag, message)
              /\ "role" \notin DOMAIN message

\* litellm.types.utils.Message.
Message(content, role, function_call, tcs, audio) ==
    [content |-> content, role |-> role, function_call |-> function_call,
     tool_calls |-> tcs, audio |-> audio]

\* The finish reason as litellm.types.utils.Choices stores it: through
\* map_finish_reason (spec section 4.4, step 3).
MapReason(reason) ==
    IF reason.t = "str" THEN PyStr(map_finish_reason(reason.v)) ELSE reason

\* litellm.types.utils.Choices.
Choices(reason, index, message, logprobs, enhancements) ==
    [finish_reason |-> MapReason(reason), index |-> index, message |-> message,
     logprobs |-> logprobs, enhancements |-> enhancements]

\* Lines 183-186 without the "stop" default (as the streaming adapters do).
RawFinishReason_no_default(choice) ==
    IF ~IsNone(Get(choice, "finish_reason")) THEN Get(choice, "finish_reason")
    ELSE Get(choice, "finish_details")

\* Lines 183-186: choice.get("finish_reason"), else
\* choice.get("finish_details") or "stop".
RawFinishReason(choice) ==
    IF ~IsNone(Get(choice, "finish_reason")) THEN Get(choice, "finish_reason")
    ELSE IF Truthy(Get(choice, "finish_details")) THEN Get(choice, "finish_details")
    ELSE PyStr("stop")

\* Lines 161-196 (idx is the 0-based position).
ConvertChoice(idx, choice, flag) ==
    LET message == choice["message"].v
        eff == EffectiveToolCalls(message)
    IN  IF JsonModeCoerced(flag, message)
        THEN Choices(PyStr("stop"), idx,
                     Message(PyStr(eff.v[1].function.arguments), PyStr("assistant"),
                             PyNone, PyNone, PyNone),
                     Get(choice, "logprobs"), Get(choice, "enhancements"))
        ELSE Choices(RawFinishReason(choice), idx,
                     Message(Get(message, "content"),
                             IF Truthy(message["role"]) THEN message["role"]
                             ELSE PyStr("assistant"),
                             Get(message, "function_call"), eff,
                             Get(message, "audio")),
                     Get(choice, "logprobs"), Get(choice, "enhancements"))

\* Lines 142-144: the assert on response_object["choices"] (KeyError when
\* the key is missing, AssertionError when it is None or not iterable).
\* The payloads of the model hold a list, None or an int under "choices".
ChoicesUsable(payload) ==
    /\ "choices" \in DOMAIN payload
    /\ payload["choices"].t = "list"

\* Lines 146-196: the loop raises.
LoopRaises(payload, flag) ==
    \E i \in 1..Len(payload["choices"].v) :
        ChoiceRaises(payload["choices"].v[i].v, flag)

\* Lines 140-196: choice_list.
ChoiceList(payload, flag) ==
    [i \in 1..Len(payload["choices"].v) |->
        ConvertChoice(i - 1, payload["choices"].v[i].v, flag)]

(***************************************************************************)
(* Lines 197-249: the top-level fields of a completion.  Each step takes   *)
(* and gives [raised, attrs]: the target's attributes so far, and whether  *)
(* an exception has left the steps after it undone.                        *)
(***************************************************************************)
Ok(attrs) == [raised |-> FALSE, attrs |-> attrs]
Raised(attrs) == [raised |-> TRUE, attrs |-> attrs]

\* litellm.Usage(**usage).
Usage(d) == [t |-> "usage", v |-> d]

\* "/" in s, and s.split("/")[0].
Contains(s, ch) == \E i \in 1..Len(s) : SubSeq(s, i, i) = ch
BeforeFirst(s, ch) ==
    IF Contains(s, ch)
    THEN SubSeq(s, 1, (CHOOSE i \in 1..Len(s) :
                          /\ SubSeq(s, i, i) = ch
                          /\ \A j \in 1..(i - 1) : SubSeq(s, j, j) # ch) - 1)
    ELSE s

\* The fields of litellm.ModelResponse (ModelResponse.model_fields).
ModelResponseFields ==
    {"id", "choices", "created", "model", "object", "system_fingerprint"}

\* Line 197.
SetChoices(st, payload, flag) ==
    IF st.raised THEN st
    ELSE Ok(Put(st.attrs, "choices", PyList(ChoiceList(payload, flag))))

\* Lines 199-201: Usage(**x) is a TypeError unless x is a mapping.
SetUsage(st, payload) ==
    IF st.raised THEN st
    ELSE IF "usage" \in DOMAIN payload /\ ~IsNone(payload["usage"])
         THEN (IF payload["usage"].t = "dict"
               THEN Ok(Put(st.attrs, "usage", Usage(payload["usage"].v)))
               ELSE Raised(st.attrs))
         ELSE st

\* Lines 202-205.
SetCreated(st, payload, now) ==
    IF st.raised THEN st
    ELSE IF "created" \in DOMAIN payload
         THEN Ok(Put(st.attrs, "created",
                     IF Truthy(payload["created"]) THEN payload["created"]
                     ELSE PyInt(now)))
         ELSE st

\* Lines 207-208.
SetId(st, payload, uuid) ==
    IF st.raised THEN st
    ELSE IF "id" \in DOMAIN payload
         THEN Ok(Put(st.attrs, "id",
                     IF Truthy(payload["id"]) THEN payload["id"] ELSE PyStr(uuid)))
         ELSE st

\* Lines 210-213.
SetSystemFingerprint(st, payload) ==
    IF st.raised THEN st
    ELSE IF "system_fingerprint" \in DOMAIN payload
         THEN Ok(Put(st.attrs, "system_fingerprint", payload["system_fingerprint"]))
         ELSE st

\* Lines 215-227 with the payload's model always adopted.
MergeModel_always_adopt(st, payload) ==
    IF st.raised THEN st
    ELSE IF "model" \in DOMAIN payload
         THEN Ok(Put(st.attrs, "model", payload["model"]))
         ELSE st

\* Lines 215-227: the model-name merge.  str + "/" + x is a TypeError
\* unless x is a str.
MergeModel(st, payload) ==
    IF st.raised THEN st
    ELSE IF "model" \in DOMAIN payload
         THEN (IF IsNone(st.attrs["model"])
               THEN Ok(Put(st.attrs, "model", payload["model"]))
               ELSE IF /\ Contains(st.attrs["model"].v, "/")
                       /\ ~IsNone(payload["model"])
                    THEN (IF payload["model"].t = "str"
                          THEN Ok(Put(st.attrs, "model",
                                      PyStr(BeforeFirst(st.attrs["model"].v, "/")
                                            \o "/" \o payload["model"].v)))
                          ELSE Raised(st.attrs))
                    ELSE st)
         ELSE st

\* Lines 229-233: a datetime difference has total_seconds(); a float
\* difference (time.time() stamps) has not: AttributeError.
SetResponseMs(st, st_time, en_time) ==
    IF st.raised THEN st
    ELSE IF ~IsNone(st_time) /\ ~IsNone(en_time) /\ st_time.t = en_time.t
         THEN (IF st_time.t = "datetime"
               THEN Ok(Put(st.attrs, "_response_ms",
                           PyInt((en_time.v - st_time.v) * 1000)))
               ELSE Raised(st.attrs))
         ELSE st

\* Lines 235-238.
UpdateHiddenParams(st, hp) ==
    IF st.raised THEN st
    ELSE IF ~IsNone(hp)
         THEN Ok(Put(st.attrs, "_hidden_params",
                     PyDict(Merge(IF IsNone(st.attrs["_hidden_params"])
                                  THEN EmptyDict
                                  ELSE st.attrs["_hidden_params"].v,
                                  hp.v))))
         ELSE st

\* Lines 240-241.
SetResponseHeaders(st, headers) ==
    IF st.raised THEN st
    ELSE IF ~IsNone(headers)
         THEN Ok(Put(st.attrs, "_response_headers", headers))
         ELSE st

\* Lines 243-247: every other payload key becomes an attribute.
SetExtensionFields(st, payload) ==
    IF st.raised THEN st
    ELSE Ok(Merge(st.attrs,
                  [k \in DOMAIN payload \ (ModelResponseFields \cup {"usage"})
                      |-> payload[k]]))

\* Lines 140-249: the non-streaming completion branch on a present payload
\* and target; gives [raised, attrs].
CompletionBody(payload, attrs, flag, st_time, en_time, hp, headers, now, uuid) ==
    IF ~ChoicesUsable(payload) THEN Raised(attrs)
    ELSE IF LoopRaises(payload, flag) THEN Raised(attrs)
    ELSE SetExtensionFields(
           SetResponseHeaders(
             UpdateHiddenParams(
               SetResponseMs(
                 MergeModel(
                   SetSystemFingerprint(
                     SetId(
                       SetCreated(
                         SetUsage(
                           SetChoices(Ok(attrs), payload, flag),
                           payload),
                         payload, now),
                       payload, uuid),
                     payload),
                   payload),
                 st_time, en_time),
               hp),
             headers),
           payload)

(***************************************************************************)
(* Lines 78-318: convert_to_model_response_object.  The operator gives     *)
(* [result, target, hidden_params]: how the call ended, and the caller's   *)
(* target object and hidden_params mapping as the call leaves them.        *)
(***************************************************************************)
\* Default-constructed ImageResponse() and TranscriptionResponse().
FreshImageResponse ==
    Obj("ImageResponse",
        [created |-> PyNone, data |-> PyList(<<>>), _hidden_params |-> PyDict(EmptyDict)])
FreshTranscriptionResponse ==
    Obj("TranscriptionResponse",
        [text |-> PyNone, _hidden_params |-> PyDict(EmptyDict)])
FreshEmbeddingResponse ==
    Obj("EmbeddingResponse",
        [model |-> PyNone, data |-> PyNone, _hidden_params |-> PyDict(EmptyDict)])
FreshRerankResponse ==
    Obj("RerankResponse",
        [id |-> PyNone, results |-> PyNone, _hidden_params |-> PyDict(EmptyDict)])

\* The generator object a call of convert_to_streaming_response gives: no
\* line of the function body has run yet.
StreamingGenerator(payload) ==
    [t |-> "generator", function |-> "convert_to_streaming_response",
     response_object |-> payload, started |-> FALSE]

\* Copy payload[k] onto attrs for each k of keys present in the payload.
CopyKeys(attrs, payload, keys) ==
    Merge(attrs, [k \in keys \cap DOMAIN payload |-> payload[k]])

\* Lines 266-281.
ImageGenerationBranch(payload, target, hp) ==
    IF IsNone(payload) THEN [result |-> WrappedError, target |-> target]
    ELSE LET obj == IF IsNone(target) THEN FreshImageResponse ELSE target
             done == Obj(obj.cls,
                         Put(CopyKeys(obj.attrs, payload.v, {"created", "data"}),
                             "_hidden_params", hp))
         IN  [result |-> Return(done),
              target |-> IF IsNone(target) THEN target ELSE done]

\* Lines 286-306.
AudioTranscriptionBranch(payload, target, hp, headers) ==
    IF IsNone(payload) THEN [result |-> WrappedError, target |-> target]
    ELSE LET obj == IF IsNone(target) THEN FreshTranscriptionResponse ELSE target
             copied == Put(CopyKeys(obj.attrs, payload.v,
                                    {"text", "language", "task", "duration",
                                     "words", "segments"}),
                           "_hidden_params", hp)
             done == Obj(obj.cls,
                         IF IsNone(headers) THEN copied
                         ELSE Put(copied, "_response_headers", headers))
         IN  [result |-> Return(done),
              target |-> IF IsNone(target) THEN target ELSE done]

\* convert_dict_to_embedding_response (spec section 4.4: takes payload,
\* target, timestamps, hidden params and headers, returns an embedding
\* response; an absent payload is an error).
convert_dict_to_embedding_response(payload, target, hp, headers) ==
    IF IsNone(payload) THEN [result |-> WrappedError, target |-> target]
    ELSE LET obj == IF IsNone(target) THEN FreshEmbeddingResponse ELSE target
             done == Obj(obj.cls,
                         Put(CopyKeys(obj.attrs, payload.v, {"model", "data", "usage"}),
                             "_hidden_params", hp))
         IN  [result |-> Return(done),
              target |-> IF IsNone(target) THEN target ELSE done]

\* convert_dict_to_rerank_response (spec section 4.4: takes payload and
\* target, returns a rerank response; an absent payload is an error).
convert_dict_to_rerank_response(payload, target) ==
    IF IsNone(payload) THEN [result |-> WrappedError, target |-> target]
    ELSE LET obj == IF IsNone(target) THEN FreshRerankResponse ELSE target
             done == Obj(obj.cls, CopyKeys(obj.attrs, payload.v, {"id", "results"}))
         IN  [result |-> Return(done),
              target |-> IF IsNone(target) THEN target ELSE done]

\* Lines 131-249: the completion branch.
CompletionBranch(payload, target, strm, st_time, en_time, hp, headers, flag, now, uuid) ==
    IF IsNone(payload) \/ IsNone(target)
    THEN [result |-> WrappedError, target |-> target]
    ELSE IF strm = TRUE
    THEN [result |-> Return(StreamingGenerator(payload)), target |-> target]
    ELSE LET st == CompletionBody(payload.v, target.attrs, flag, st_time,
                                  en_time, hp, headers, now, uuid)
             after == Obj(target.cls, st.attrs)
         IN  [result |-> IF st.raised THEN WrappedError ELSE Return(after),
              target |-> after]

\* Lines 130-314: the dispatch on response_type and the target's class; when
\* no branch is taken the function ends without a return statement.
Dispatch(payload, target, rtype, strm, st_time, en_time, hp, headers, flag, now, uuid) ==
    IF rtype = "completion" /\ (IsNone(target) \/ IsInstance(target, "ModelResponse"))
    THEN CompletionBranch(payload, target, strm, st_time, en_time, hp, headers,
                          flag, now, uuid)
    ELSE IF rtype = "embedding"
            /\ (IsNone(target) \/ IsInstance(target, "EmbeddingResponse"))
    THEN convert_dict_to_embedding_response(payload, target, hp, headers)
    ELSE IF rtype = "image_generation"
            /\ (IsNone(target) \/ IsInstance(target, "ImageResponse"))
    THEN ImageGenerationBranch(payload, target, hp)
    ELSE IF rtype = "audio_transcription"
            /\ (IsNone(target) \/ IsInstance(target, "TranscriptionResponse"))
    THEN AudioTranscriptionBranch(payload, target, hp, headers)
    ELSE IF rtype = "rerank"
            /\ (IsNone(target) \/ IsInstance(target, "RerankResponse"))
    THEN convert_dict_to_rerank_response(payload, target)
    ELSE [result |-> Return(PyNone), target |-> target]

\* Lines 101-107: `hidden_params or {}`, then the headers are written into
\* it: into the caller's own mapping when that is non-empty.
LocalHiddenParams(hp, headers) ==
    LET local == IF Truthy(hp) THEN hp ELSE PyDict(EmptyDict)
    IN  IF ~IsNone(headers)
        THEN _set_headers_in_hidden_params(local, headers.v)
        ELSE local

convert_to_model_response_object(payload, target, rtype, strm, st_time, en_time, hp, headers, flag, now, uuid) ==
    LET local == LocalHiddenParams(hp, headers)
        hp_after == IF Truthy(hp) THEN local ELSE hp
    IN  IF HasErrorSurface(payload)
        THEN [result |-> ErrorSurface(payload), target |-> target,
              hidden_params |-> hp_after]
        ELSE LET d == Dispatch(payload, target, rtype, strm, st_time, en_time,
                               local, headers, flag, now, uuid)
             IN  [result |-> d.result, target |-> d.target,
                  hidden_params |-> hp_after]

\* int(time.time()) and str(uuid.uuid4()) as the call may see them.
Clock == {1730000000, 1730000060}
Uuids == {"uuid-a", "uuid-b"}

(***************************************************************************)
(* The calls of convert_to_model_response_object the model makes.  Each    *)
(* family varies one facet of the arguments over every shape the code      *)
(* tells apart, around a well-formed completion payload.                   *)
(***************************************************************************)
MaxChoices == 2      \* most choices in a payload of the choices family

Without(d, k) == [x \in DOMAIN d \ {k} |-> d[x]]

SimpleMessage == [role |-> PyStr("assistant"), content |-> PyStr("hi")]
SimpleChoice ==
    PyDict([message |-> PyDict(SimpleMessage), finish_reason |-> PyStr("stop")])
WellFormedUsage ==
    PyDict([prompt_tokens |-> PyInt(1), completion_tokens |-> PyInt(1),
            total_tokens |-> PyInt(2)])
BasePayload ==
    [choices |-> PyList(<<SimpleChoice>>), usage |-> WellFormedUsage,
     id |-> PyStr("chatcmpl-123"), created |-> PyInt(1729990000),
     model |-> PyStr("gpt-4-0613")]

\* A ModelResponse() the caller made, with its model set to `model`.
ModelResponseTarget(model) ==
    Obj("ModelResponse",
        [id |-> PyStr("chatcmpl-init"), created |-> PyInt(1729999999),
         model |-> model, object |-> PyStr("chat.completion"),
         system_fingerprint |-> PyNone,
         choices |-> PyList(<<Choices(PyStr("stop"), 0,
                                      Message(PyNone, PyStr("assistant"),
                                              PyNone, PyNone, PyNone),
                                      PyNone, PyNone)>>),
         _hidden_params |-> PyDict(EmptyDict)])

ResponseTypes ==
    {"completion", "embedding", "image_generation", "audio_transcription", "rerank"}

Call(payload, target, rtype, strm, st_time, en_time, hp, headers, flag) ==
    [response_object |-> payload, target |-> target, response_type |-> rtype,
     stream |-> strm, start_time |-> st_time, end_time |-> en_time,
     hidden_params |-> hp, headers |-> headers, flag |-> flag]

\* --- the "error" key ----------------------------------------------------
ErrorCodes == {PyNone, PyInt(400), PyStr("rate_limited")}
ErrorMessages ==
    {PyNone, PyStr("bad request"),
     [t |-> "strdict", v |-> << <<"detail", "quota">>, <<"param", "model">> >>]}
ErrorDicts ==
    {EmptyDict}
    \cup {[code |-> c] : c \in ErrorCodes}
    \cup {[message |-> m] : m \in ErrorMessages}
    \cup {[code |-> c, message |-> m] : c \in ErrorCodes, m \in ErrorMessages}
ErrorValues ==
    {PyNone, PyStr("upstream failure")} \cup {PyDict(e) : e \in ErrorDicts}

SomeHeaders == PyDict([x \in {"x-ratelimit-limit-tokens", "x-foo"} |->
                          IF x = "x-foo" THEN "bar" ELSE "10"])

ErrorCalls ==
    {Call(PyDict(Put(BasePayload, "error", e)), target, rtype, strm,
          PyNone, PyNone, PyNone, headers, PyNone) :
        e \in ErrorValues,
        target \in {PyNone, ModelResponseTarget(PyStr("gpt-4")), FreshImageResponse},
        rtype \in ResponseTypes, strm \in BOOLEAN, headers \in {PyNone, SomeHeaders}}

\* --- absent payload, unusable "choices" ----------------------------------
FormatPayloads ==
    {PyNone, PyDict(BasePayload), PyDict(Without(BasePayload, "choices")),
     PyDict(Put(BasePayload, "choices", PyNone)),
     PyDict(Put(BasePayload, "choices", PyInt(5)))}

FormatCalls ==
    {Call(payload, target, rtype, strm, PyNone, PyNone, PyNone, PyNone, PyNone) :
        payload \in FormatPayloads,
        target \in {PyNone, ModelResponseTarget(PyNone), FreshImageResponse,
                    FreshTranscriptionResponse, FreshEmbeddingResponse,
                    FreshRerankResponse},
        rtype \in ResponseTypes, strm \in BOOLEAN}

\* --- response headers ------------------------------------------------------
HeaderKeys == OpenAIHeaderKeys \cup {"x-foo", "content-type"}
HeaderValueSets ==
    {[k \in HeaderKeys |-> "10"],
     [k \in HeaderKeys |-> IF k \in OpenAIHeaderKeys THEN "99" ELSE "bar"]}
HeaderMaps ==
    {[k \in ks |-> vals[k]] : ks \in SUBSET HeaderKeys, vals \in HeaderValueSets}

HeaderCalls ==
    {Call(PyDict(BasePayload), target, rtype, FALSE, PyNone, PyNone, hp,
          PyDict(h), PyNone) :
        target \in {ModelResponseTarget(PyNone)},
        rtype \in {"completion", "audio_transcription"},
        hp \in {PyNone, PyDict(EmptyDict),
                PyDict([custom_llm_provider |-> PyStr("openai")])},
        h \in HeaderMaps}

\* --- top-level fields: model, usage, created, id, timestamps ---------------
TargetModels ==
    {PyNone, PyStr(""), PyStr("gpt-4"), PyStr("azure/gpt-4"),
     PyStr("openai/azure/gpt-4"), PyStr("/gpt-4")}
PayloadModels ==
    {PyDict(Without(BasePayload, "model")),
     PyDict(Put(BasePayload, "model", PyNone)),
     PyDict(BasePayload),
     PyDict(Put(BasePayload, "model", PyStr("ft/gpt-4-0613"))),
     PyDict(Put(BasePayload, "model", PyInt(4)))}

\* The same payload with "usage" / "created" and "id" / an extension key varied.
TopLevelVariants(p) ==
    {p,
     PyDict(Without(p.v, "usage")),
     PyDict(Put(p.v, "usage", PyNone)),
     PyDict(Put(p.v, "usage", PyStr("1 prompt token"))),
     PyDict(Put(Put(p.v, "created", PyNone), "id", PyNone)),
     PyDict(Without(Without(p.v, "created"), "id")),
     PyDict(Put(Put(p.v, "system_fingerprint", PyStr("fp_44709d6fcb")),
                "service_tier", PyStr("default")))}

Timestamps ==
    {<<PyNone, PyNone>>,
     <<[t |-> "datetime", v |-> 10], [t |-> "datetime", v |-> 12]>>,
     <<[t |-> "float", v |-> 10], [t |-> "float", v |-> 12]>>,
     <<[t |-> "datetime", v |-> 10], [t |-> "float", v |-> 12]>>}

TopLevelCalls ==
    {Call(payload, ModelResponseTarget(m), "completion", FALSE, ts[1], ts[2],
          PyNone, PyNone, PyNone) :
        m \in TargetModels,
        payload \in UNION {TopLevelVariants(p) : p \in PayloadModels},
        ts \in Timestamps}

\* --- choices: finish reasons, tool calls, JSON mode ------------------------
RawToolCall(id, name, arguments) ==
    PyDict([id |-> PyStr(id), type |-> PyStr("function"),
            function |-> PyDict([name |-> PyStr(name), arguments |-> arguments])])

PackOf(n) ==
    SubSeq(<<[recipient_name |-> "functions.get_weather",
              parameters |-> << <<"q", 1>> >>],
             [recipient_name |-> "get_time", parameters |-> <<>>]>>, 1, n)

PlainCall(id) == RawToolCall(id, "get_time", PyStr(DumpsParams(<< <<"q", 1>> >>)))
SentinelCall(id, n) == RawToolCall(id, SENTINEL, PyStr(DumpsToolUses(PackOf(n))))

RawToolCallLists ==
    {<<>>,
     <<PlainCall("call_1")>>,
     <<PlainCall("call_1"), PlainCall("call_2")>>,
     <<SentinelCall("call_1", 0)>>,
     <<SentinelCall("call_1", 1)>>,
     <<SentinelCall("call_1", 2)>>,
     <<RawToolCall("call_1", "get_time", PyNone)>>}

FinishReasonValues == {PyNone, PyStr("max_tokens"), PyStr("")}
FinishDetailsValues == {PyStr(""), PyStr("MAX_TOKENS")}

\* A choice dict: a key is left out, or holds the value given.
ChoiceDict(message, reason, reason_present, details, details_present) ==
    PyDict(Merge(Merge([message |-> PyDict(message)],
                       IF reason_present THEN [finish_reason |-> reason]
                       ELSE EmptyDict),
                 IF details_present THEN [finish_details |-> details]
                 ELSE EmptyDict))

FinishChoices ==
    {ChoiceDict(SimpleMessage, r, rp, d, dp) :
        r \in FinishReasonValues, rp \in BOOLEAN,
        d \in FinishDetailsValues, dp \in BOOLEAN}

ToolCallChoices ==
    {ChoiceDict(Put(SimpleMessage, "tool_calls", PyList(tcs)), r, TRUE, PyNone, FALSE) :
        tcs \in RawToolCallLists, r \in {PyStr("tool_use")}}

RoleChoices ==
    {ChoiceDict(m, PyStr("stop"), TRUE, PyNone, FALSE) :
        m \in {Put(SimpleMessage, "role", PyStr("")),
               Put(SimpleMessage, "role", PyNone),
               Without(SimpleMessage, "role"),
               Put(Without(SimpleMessage, "role"), "tool_calls",
                   PyList(<<PlainCall("call_1")>>))}}
    \cup {PyDict([finish_reason |-> PyStr("stop")])}

ChoiceUniverse == FinishChoices \cup ToolCallChoices \cup RoleChoices

ChoiceCalls ==
    {Call(PyDict(Put(BasePayload, "choices", PyList(cs))),
          ModelResponseTarget(PyNone), "completion", FALSE, PyNone, PyNone,
          PyNone, PyNone, flag) :
        cs \in SeqUpTo(ChoiceUniverse, MaxChoices),
        flag \in {PyNone, PyBool(FALSE), PyBool(TRUE)}}

AssembleCalls ==
    ErrorCalls \cup FormatCalls \cup HeaderCalls \cup TopLevelCalls \cup ChoiceCalls

(***************************************************************************)
(* SpecAssemble: a caller makes one call of                                *)
(* convert_to_model_response_object.                                       *)
(***************************************************************************)
InitAssemble ==
    /\ pc = "call"
    /\ \E c \in AssembleCalls :
          /\ response_object = c.response_object
          /\ model_response_object = c.target
          /\ target_in = c.target
          /\ response_type = c.response_type
          /\ stream = c.stream
          /\ start_time = c.start_time
          /\ end_time = c.end_time
          /\ hidden_params = c.hidden_params
          /\ hidden_params_in = c.hidden_params
          /\ _response_headers = c.headers
          /\ convert_tool_call_to_json_mode = c.flag
    /\ result = [kind |-> "pending"]
    /\ MapIdle
    /\ RepairIdle
    /\ StreamIdle

ConvertToModelResponseObject ==
    /\ pc = "call"
    /\ \E now \in Clock, uuid \in Uuids :
          LET out == convert_to_model_response_object(
                         response_object, model_response_object, response_type,
                         stream, start_time, end_time, hidden_params,
                         _response_headers, convert_tool_call_to_json_mode,
                         now, uuid)
          IN  /\ result' = out.result
              /\ model_response_object' = out.target
              /\ hidden_params' = out.hidden_params
    /\ pc' = "done"
    /\ UNCHANGED <<response_object, target_in, response_type, stream, start_time,
                   end_time, hidden_params_in, _response_headers, convert_tool_call_to_json_mode,
                   mapVars, repairVars, streamVars>>

NextAssemble == ConvertToModelResponseObject

SpecAssemble == InitAssemble /\ [][NextAssemble]_vars

(***************************************************************************)
(* Lines 321-455: the two Streaming Adapters.  Both are generator          *)
(* functions: calling one runs none of its body; the first next() runs the *)
(* body up to the yield; the following next() ends the generator (the      *)
(* asynchronous one after `await asyncio.sleep(0)`).                       *)
(***************************************************************************)
\* ChatCompletionDeltaToolCall(**t): a typed delta tool call with t's fields.
ChatCompletionDeltaToolCall(t) == Obj("ChatCompletionDeltaToolCall", t)

\* Delta(content=, role=, function_call=, tool_calls=) (spec section 4.5: a
\* Delta is built from content, role, function_call and the tool calls).
Delta(content, role, function_call, tcs) ==
    [content |-> content, role |-> role, function_call |-> function_call,
     tool_calls |-> tcs]

\* StreamingChoices(finish_reason=, index=, delta=, logprobs=, enhancements=)
\* (spec section 4.5: the raw finish reason is propagated, with no mapping).
StreamingChoices(reason, index, delta, logprobs, enhancements) ==
    [finish_reason |-> reason, index |-> index, delta |-> delta,
     logprobs |-> logprobs, enhancements |-> enhancements]

\* ModelResponse(stream=True): a fresh id and creation time, nothing else set.
StreamModelResponse(now, uuid) ==
    [id |-> PyStr("chatcmpl-" \o uuid), created |-> PyInt(now),
     model |-> PyNone, object |-> PyStr("chat.completion.chunk"),
     system_fingerprint |-> PyNone, choices |-> PyList(<<>>)]

StreamYield(attrs) == [kind |-> "yield", value |-> Obj("ModelResponse", attrs)]
StreamRaise(exc) == [kind |-> "raise", exc |-> exc]

\* Lines 348-352: the message holds a non-empty list of tool calls whose
\* first entry is a dict.
HasRawToolCalls(message) ==
    LET tcs == Get(message, "tool_calls")
    IN  /\ ~IsNone(tcs)
        /\ tcs.t = "list"
        /\ Len(tcs.v) > 0
        /\ tcs.v[1].t = "dict"

\* Lines 356-357: `if "index" not in t: t["index"] = index`.
WithIndex(t, index) ==
    IF "index" \in DOMAIN t THEN t ELSE Put(t, "index", PyInt(index))

\* Lines 354-358: pydantic_tool_calls.
PydanticToolCalls(tcs) ==
    [i \in 1..Len(tcs) |-> ChatCompletionDeltaToolCall(WithIndex(tcs[i].v, i - 1))]

\* Lines 347-359: the message as the asynchronous adapter leaves it; line
\* 359 stores the typed list into the caller's message.
AsyncMessage(message) ==
    IF HasRawToolCalls(message)
    THEN Put(message, "tool_calls",
             PyList(PydanticToolCalls(message["tool_calls"].v)))
    ELSE message

\* choice["message"] raises KeyError (or the choice is no mapping).
NoMessage(choice) ==
    \/ choice.t # "dict"
    \/ "message" \notin DOMAIN choice.v
    \/ choice.v["message"].t # "dict"

\* choice["message"]["role"] raises KeyError.
NoRole(choice) == "role" \notin DOMAIN choice.v["message"].v

\* The first choice at which the loop raises; Len(choices) + 1 when none does.
FirstBad(choices) ==
    LET bad == {i \in 1..Len(choices) : NoMessage(choices[i]) \/ NoRole(choices[i])}
    IN  IF bad = {} THEN Len(choices) + 1
        ELSE CHOOSE i \in bad : \A j \in bad : i <= j

\* Lines 366-369 and 421-424: finish_reason, else finish_details.
StreamFinishReason(choice) ==
    IF IsNone(Get(choice, "finish_reason"))
    THEN Get(choice, "finish_details")
    ELSE Get(choice, "finish_reason")

\* Lines 347-376: one choice of the asynchronous adapter (no enhancements
\* argument: StreamingChoices keeps its default, None).
AsyncStreamingChoice(idx, choice) ==
    LET message == AsyncMessage(choice["message"].v)
    IN  StreamingChoices(
            StreamFinishReason(choice), idx,
            Delta(Get(message, "content"), message["role"],
                  Get(message, "function_call"), Get(message, "tool_calls")),
            Get(choice, "logprobs"), PyNone)

\* Lines 414-435: one choice of the synchronous adapter.
SyncStreamingChoice(idx, choice) ==
    LET message == choice["message"].v
    IN  StreamingChoices(
            StreamFinishReason(choice), idx,
            Delta(Get(message, "content"), message["role"],
                  Get(message, "function_call"), Get(message, "tool_calls")),
            Get(choice, "logprobs"), Get(choice, "enhancements"))

\* response_object["usage"].get(k, 0)
GetOrZero(d, k) == IF k \in DOMAIN d THEN d[k] ELSE PyInt(0)

\* Lines 380-389 and 438-442: the usage counts, 0 for a count not given.
StreamUsage(u) ==
    Usage([completion_tokens |-> GetOrZero(u, "completion_tokens"),
           prompt_tokens |-> GetOrZero(u, "prompt_tokens"),
           total_tokens |-> GetOrZero(u, "total_tokens")])

\* `"usage" in response_object and response_object["usage"] is not None`
HasUsage(payload) == "usage" \in DOMAIN payload /\ ~IsNone(payload["usage"])

\* Lines 391-401 and 444-454: id, created, system_fingerprint and model are
\* copied when the payload has the key.
CopyTopLevel(attrs, payload) ==
    CopyKeys(attrs, payload, {"id", "created", "system_fingerprint", "model"})

\* Lines 378-403 and 436-455: what follows the loop.
AfterLoop(attrs, payload) ==
    IF HasUsage(payload) /\ payload["usage"].t # "dict"
    THEN StreamRaise("AttributeError")
    ELSE StreamYield(CopyTopLevel(
             IF HasUsage(payload)
             THEN Put(attrs, "usage", StreamUsage(payload["usage"].v))
             ELSE attrs,
             payload))

\* Lines 407-455: the body of convert_to_streaming_response up to its yield.
convert_to_streaming_response(payload, now, uuid) ==
    IF IsNone(payload) THEN StreamRaise("Exception")
    ELSE IF "choices" \notin DOMAIN payload.v THEN StreamRaise("KeyError")
    ELSE IF payload.v["choices"].t # "list" THEN StreamRaise("TypeError")
    ELSE LET choices == payload.v["choices"].v
         IN  IF FirstBad(choices) <= Len(choices) THEN StreamRaise("KeyError")
             ELSE AfterLoop(
                      Put(StreamModelResponse(now, uuid), "choices",
                          PyList([i \in 1..Len(choices) |->
                                     SyncStreamingChoice(i - 1, choices[i].v)])),
                      payload.v)

\* Lines 321-403: the body of convert_to_streaming_response_async up to its
\* yield.
convert_to_streaming_response_async(payload, now, uuid) ==
    IF IsNone(payload) THEN StreamRaise("Exception")
    ELSE IF "choices" \notin DOMAIN payload.v THEN StreamRaise("KeyError")
    ELSE IF payload.v["choices"].t # "list" THEN StreamRaise("TypeError")
    ELSE LET choices == payload.v["choices"].v
         IN  IF FirstBad(choices) <= Len(choices) THEN StreamRaise("KeyError")
             ELSE AfterLoop(
                      Put(StreamModelResponse(now, uuid), "choices",
                          PyList([i \in 1..Len(choices) |->
                                     AsyncStreamingChoice(i - 1, choices[i].v)])),
                      payload.v)

\* Lines 347-359: the caller's payload as the asynchronous adapter leaves
\* it.  The loop rewrites the message of every choice it reaches before it
\* reads that message's role.
AsyncPayloadAfter(payload) ==
    IF IsNone(payload) \/ "choices" \notin DOMAIN payload.v
       \/ payload.v["choices"].t # "list"
    THEN payload
    ELSE LET choices == payload.v["choices"].v
             reached(i) == i <= FirstBad(choices) /\ ~NoMessage(choices[i])
         IN  PyDict(Put(payload.v, "choices",
                 PyList([i \in 1..Len(choices) |->
                     IF reached(i)
                     THEN PyDict(Put(choices[i].v, "message",
                              PyDict(AsyncMessage(choices[i].v["message"].v))))
                     ELSE choices[i]])))

(***************************************************************************)
(* The payloads handed to the Streaming Adapters: every shape of a tool-   *)
(* call list, message, choice and top-level key the two bodies tell apart. *)
(***************************************************************************)
\* A raw (dict) tool-call record without an index, and one with an index.
RawDeltaToolCall(id) ==
    [id |-> PyStr(id), type |-> PyStr("function"),
     function |-> PyDict([name |-> PyStr("get_time"),
                          arguments |-> PyStr(DumpsParams(<< <<"q", 1>> >>))])]
RawDeltaToolCallAt(id, index) == Put(RawDeltaToolCall(id), "index", PyInt(index))

StreamToolCallValues ==
    {PyNone, PyList(<<>>),
     PyList(<<PyDict(RawDeltaToolCall("a"))>>),
     PyList(<<PyDict(RawDeltaToolCall("a")), PyDict(RawDeltaToolCall("b"))>>),
     PyList(<<PyDict(RawDeltaToolCallAt("a", 5)), PyDict(RawDeltaToolCall("b"))>>),
     PyList(<<ChatCompletionDeltaToolCall(RawDeltaToolCallAt("a", 0))>>)}

StreamMessages ==
    {SimpleMessage,
     Without(SimpleMessage, "content"),
     Without(SimpleMessage, "role"),
     Put(SimpleMessage, "role", PyStr("")),
     Put(SimpleMessage, "function_call",
         PyDict([name |-> PyStr("f"), arguments |-> PyStr("{}")]))}
    \cup {Put(SimpleMessage, "tool_calls", tcs) : tcs \in StreamToolCallValues}

StreamChoice(message) ==
    [message |-> PyDict(message), finish_reason |-> PyStr("stop")]

StreamChoiceDicts ==
    {StreamChoice(m) : m \in StreamMessages}
    \cup {Without(StreamChoice(SimpleMessage), "finish_reason"),
          Put(Without(StreamChoice(SimpleMessage), "finish_reason"),
              "finish_details", PyStr("MAX_TOKENS")),
          Put(Put(StreamChoice(SimpleMessage), "finish_reason", PyNone),
              "finish_details", PyStr("")),
          Put(StreamChoice(SimpleMessage), "finish_details", PyStr("MAX_TOKENS")),
          Put(StreamChoice(SimpleMessage), "logprobs", PyStr("lp")),
          Put(StreamChoice(SimpleMessage), "enhancements", PyStr("grounding")),
          Put(StreamChoice(SimpleMessage), "enhancements", PyNone),
          Without(StreamChoice(SimpleMessage), "message")}

StreamChoiceLists ==
    {PyList(cl) : cl \in SeqUpTo({PyDict(c) : c \in StreamChoiceDicts}, MaxChoices)}

\* The top-level keys beside "choices".
StreamUsageValues ==
    {PyNone, PyDict(EmptyDict), PyDict([prompt_tokens |-> PyInt(3)]),
     WellFormedUsage, PyStr("n/a")}

StreamTopLevels ==
    {[id |-> PyStr("chatcmpl-123"), created |-> PyInt(1729990000)],
     [id |-> PyStr("chatcmpl-123"), created |-> PyInt(1729990000),
      model |-> PyStr("gpt-4-0613"), system_fingerprint |-> PyStr("fp_1")],
     EmptyDict}
    \cup {[id |-> PyStr("chatcmpl-123"), created |-> PyInt(1729990000),
           usage |-> u] : u \in StreamUsageValues}

StreamPayloads ==
    {PyNone, PyDict([id |-> PyStr("chatcmpl-123")]),
     PyDict([id |-> PyStr("chatcmpl-123"), choices |-> PyNone])}
    \cup {PyDict(Put([id |-> PyStr("chatcmpl-123"), created |-> PyInt(1729990000)],
                     "choices", cl)) : cl \in StreamChoiceLists}
    \cup {PyDict(Put(top, "choices", PyList(<<PyDict(StreamChoice(SimpleMessage))>>))) :
             top \in StreamTopLevels}

(***************************************************************************)
(* SpecStream: a caller hands one payload mapping to both Streaming        *)
(* Adapters and runs each generator to its end, in any interleaving.       *)
(***************************************************************************)
InitStream ==
    /\ pc = "stream"
    /\ stream_payload \in StreamPayloads
    /\ payload_in = stream_payload
    /\ sync_pc = "idle"
    /\ sync_result = [kind |-> "pending"]
    /\ async_pc = "idle"
    /\ async_result = [kind |-> "pending"]
    /\ MapIdle
    /\ RepairIdle
    /\ AsmIdle

\* convert_to_streaming_response(response_object=payload): a generator
\* object is made; the body has not started.
SyncCall ==
    /\ pc = "stream"
    /\ sync_pc = "idle"
    /\ sync_pc' = "created"
    /\ UNCHANGED <<pc, stream_payload, payload_in, sync_result, async_pc,
                   async_result, mapVars, repairVars, asmVars>>

\* The first next(): lines 409-455.
SyncNext ==
    /\ pc = "stream"
    /\ sync_pc = "created"
    /\ \E now \in Clock, uuid \in Uuids :
          sync_result' = convert_to_streaming_response(stream_payload, now, uuid)
    /\ sync_pc' = IF sync_result'.kind = "yield" THEN "yielded" ELSE "raised"
    /\ UNCHANGED <<pc, stream_payload, payload_in, async_pc, async_result,
                   mapVars, repairVars, asmVars>>

\* The following next(): the body ends after the yield of line 455.
SyncFinish ==
    /\ pc = "stream"
    /\ sync_pc = "yielded"
    /\ sync_pc' = "exhausted"
    /\ UNCHANGED <<pc, stream_payload, payload_in, sync_result, async_pc,
                   async_result, mapVars, repairVars, asmVars>>

\* convert_to_streaming_response_async(response_object=payload).
AsyncCall ==
    /\ pc = "stream"
    /\ async_pc = "idle"
    /\ async_pc' = "created"
    /\ UNCHANGED <<pc, stream_payload, payload_in, sync_pc, sync_result,
                   async_result, mapVars, repairVars, asmVars>>

\* The first __anext__(): lines 337-403, which write into the payload.
AsyncNext ==
    /\ pc = "stream"
    /\ async_pc = "created"
    /\ \E now \in Clock, uuid \in Uuids :
          async_result' =
              convert_to_streaming_response_async(stream_payload, now, uuid)
    /\ stream_payload' = AsyncPayloadAfter(stream_payload)
    /\ async_pc' = IF async_result'.kind = "yield" THEN "yielded" ELSE "raised"
    /\ UNCHANGED <<pc, payload_in, sync_pc, sync_result, mapVars, repairVars,
                   asmVars>>

\* The following __anext__(): `await asyncio.sleep(0)` (line 404), then the
\* body ends.
AsyncFinish ==
    /\ pc = "stream"
    /\ async_pc = "yielded"
    /\ async_pc' = "exhausted"
    /\ UNCHANGED <<pc, stream_payload, payload_in, sync_pc, sync_result,
                   async_result, mapVars, repairVars, asmVars>>

NextStream ==
    \/ SyncCall
    \/ SyncNext
    \/ SyncFinish
    \/ AsyncCall
    \/ AsyncNext
    \/ AsyncFinish

SpecStream == InitStream /\ [][NextStream]_vars

(***************************************************************************)
(* C3: map_finish_reason.                                                  *)
(***************************************************************************)
\* C3: map_finish_reason gives "stop", "length", "content_filter" and
\* "tool_calls" on the keys of its table, gives every other string back
\* unchanged (the match is exact and case-sensitive), and mapping a mapped
\* value again changes nothing.
C3_MapFinishReasonTable ==
    /\ pc \in {"mapped", "remapped"} =>
          /\ finish_reason \in StopInputs => mapped = "stop"
          /\ finish_reason \in LengthInputs => mapped = "length"
          /\ finish_reason \in ContentFilterInputs => mapped = "content_filter"
          /\ finish_reason \in ToolCallsInputs => mapped = "tool_calls"
          /\ finish_reason \notin TableInputs => mapped = finish_reason
    /\ pc = "remapped" => remapped = mapped

\* A key of the table has been mapped to another string, and mapped again.
C3_Witness ==
    /\ pc = "remapped"
    /\ finish_reason = "max_tokens"
    /\ mapped = "length"
    /\ remapped = "length"

(***************************************************************************)
(* C4-C10: convert_to_model_response_object.                               *)
(***************************************************************************)
Returned == pc = "done" /\ result.kind = "return"
RaisedWrapped == pc = "done" /\ result.kind = "raise" /\ result.wrapped

\* The call ran the non-streaming completion branch to its return.
CompletionReturned ==
    /\ Returned
    /\ response_type = "completion"
    /\ stream = FALSE
    /\ result.value.t = "obj"

\* C4: a payload with a non-null "error" makes the call raise, whatever the
\* response kind and the streaming flag, with the target untouched; the
\* error carries error.code (422 without one) and the error's message as a
\* string (JSON when it is a mapping, "Error in response object" without
\* one), and it is not the wrapped "Invalid response object" error.
C4_ErrorSurfaceRaises ==
    (pc = "done" /\ HasErrorSurface(response_object)) =>
        LET e == response_object.v["error"]
            isdict == e.t = "dict"
        IN  /\ result.kind = "raise"
            /\ ~result.wrapped
            /\ model_response_object = target_in
            /\ result.status_code =
                   (IF isdict /\ "code" \in DOMAIN e.v THEN e.v["code"] ELSE PyInt(422))
            /\ (~isdict \/ "message" \notin DOMAIN e.v)
                   => result.message = "Error in response object"
            /\ (isdict /\ "message" \in DOMAIN e.v /\ e.v["message"].t = "str")
                   => result.message = e.v["message"].v
            /\ (isdict /\ "message" \in DOMAIN e.v /\ e.v["message"].t = "strdict")
                   => result.message = "{\"detail\": \"quota\", \"param\": \"model\"}"
            /\ (isdict /\ Get(e.v, "code") = PyInt(400)
                       /\ Get(e.v, "message") = PyStr("bad request"))
                   => /\ result.status_code = PyInt(400)
                      /\ result.message = "bad request"

\* The spec's example error, on a streaming embedding call.
C4_Witness ==
    /\ pc = "done"
    /\ HasErrorSurface(response_object)
    /\ response_object.v["error"] =
           PyDict([code |-> PyInt(400), message |-> PyStr("bad request")])
    /\ response_type = "embedding"
    /\ stream = TRUE
    /\ ~IsNone(target_in)
    /\ result.kind = "raise"
    /\ result.status_code = PyInt(400)

\* The target is absent or of the class the response kind asks for.
TargetFitsKind ==
    \/ IsNone(target_in)
    \/ response_type = "completion" /\ IsInstance(target_in, "ModelResponse")
    \/ response_type = "image_generation" /\ IsInstance(target_in, "ImageResponse")
    \/ response_type = "audio_transcription"
          /\ IsInstance(target_in, "TranscriptionResponse")

\* C5: the call itself fails with the wrapped assembly error when the
\* payload is absent (completion, image generation, audio transcription)
\* and, for a completion, when "choices" is missing, null or not iterable,
\* whatever the streaming flag.
C5_MalformedInputFailsAtCall ==
    (/\ pc = "done"
     /\ TargetFitsKind
     /\ \/ /\ IsNone(response_object)
           /\ response_type \in {"completion", "image_generation",
                                 "audio_transcription"}
        \/ /\ ~IsNone(response_object)
           /\ ~HasErrorSurface(response_object)
           /\ response_type = "completion"
           /\ ~ChoicesUsable(response_object.v))
    => (result.kind = "raise" /\ result.wrapped)

\* C6: the additional_headers bag of the hidden metadata holds exactly the
\* keys "llm_provider-<k>" for k in H and the recognized keys that occur in
\* H, each with its value in H.
C6_AdditionalHeaders ==
    (/\ Returned
     /\ ~IsNone(_response_headers)
     /\ result.value.t = "obj"
     /\ response_type \in {"completion", "image_generation", "audio_transcription"})
    => LET H == _response_headers.v
           bag == result.value.attrs["_hidden_params"].v["additional_headers"].v
       IN  /\ DOMAIN bag = {"llm_provider-" \o k : k \in DOMAIN H}
                           \cup (OpenAIHeaderKeys \cap DOMAIN H)
           /\ \A k \in DOMAIN H : bag["llm_provider-" \o k] = H[k]
           /\ \A k \in OpenAIHeaderKeys \cap DOMAIN H : bag[k] = H[k]
           /\ \A k \in DOMAIN H \ OpenAIHeaderKeys : k \notin DOMAIN bag

\* The spec's example: a recognized header and an unrelated one.
C6_Witness ==
    /\ CompletionReturned
    /\ ~IsNone(_response_headers)
    /\ DOMAIN _response_headers.v = {"x-ratelimit-remaining-tokens", "x-foo"}
    /\ LET bag == model_response_object.attrs["_hidden_params"].v["additional_headers"].v
       IN  /\ bag["x-ratelimit-remaining-tokens"] = "99"
           /\ bag["llm_provider-x-foo"] = "bar"

\* C7: after a successful non-streaming completion the target's model is
\* the payload's model when the target had none, "<p>/<payload model>"
\* when the target's model held a "/" (p: what precedes its first "/") and
\* the payload's model is not null, and the target's previous model otherwise.
C7_ModelMerge ==
    CompletionReturned =>
        LET prev == target_in.attrs["model"]
            new == model_response_object.attrs["model"]
            payload == response_object.v
        IN  IF "model" \notin DOMAIN payload THEN new = prev
            ELSE IF IsNone(prev) THEN new = payload["model"]
            ELSE IF Contains(prev.v, "/") /\ ~IsNone(payload["model"])
            THEN /\ new = PyStr(BeforeFirst(prev.v, "/") \o "/" \o payload["model"].v)
                 /\ (prev = PyStr("azure/gpt-4") /\ payload["model"] = PyStr("gpt-4-0613"))
                        => new = PyStr("azure/gpt-4-0613")
                 /\ (prev = PyStr("openai/azure/gpt-4")
                        /\ payload["model"] = PyStr("gpt-4-0613"))
                        => new = PyStr("openai/gpt-4-0613")
            ELSE new = prev

\* The spec's example: "azure/gpt-4" and "gpt-4-0613".
C7_Witness ==
    /\ CompletionReturned
    /\ target_in.attrs["model"] = PyStr("azure/gpt-4")
    /\ Get(response_object.v, "model") = PyStr("gpt-4-0613")
    /\ model_response_object.attrs["model"] = PyStr("azure/gpt-4-0613")

\* C8: when non-streaming completion assembly fails with the wrapped
\* error, the caller's target is exactly as it was before the call.
C8_FailureLeavesTargetUntouched ==
    (/\ RaisedWrapped
     /\ response_type = "completion"
     /\ stream = FALSE)
    => model_response_object = target_in

\* The i-th raw choice of the payload and the i-th Choices of the target.
RawChoice(i) == response_object.v["choices"].v[i].v
OutChoice(i) == model_response_object.attrs["choices"].v[i]
NumRawChoices == Len(response_object.v["choices"].v)

\* The finish reason C9 names, reading "present" as "not null".
ClaimedRawReason(choice) ==
    IF ~IsNone(Get(choice, "finish_reason")) THEN Get(choice, "finish_reason")
    ELSE IF ~IsNone(Get(choice, "finish_details")) THEN Get(choice, "finish_details")
    ELSE PyStr("stop")

\* The same with a finish_details that is empty counted as not given.
AmendedRawReason(choice) ==
    IF ~IsNone(Get(choice, "finish_reason")) THEN Get(choice, "finish_reason")
    ELSE IF ~IsNone(Get(choice, "finish_details"))
            /\ Get(choice, "finish_details") # PyStr("")
    THEN Get(choice, "finish_details")
    ELSE PyStr("stop")

\* The canonical value of a finish reason, by the table of spec section 4.1.
Canonical(reason) ==
    IF reason.t # "str" THEN reason
    ELSE IF reason.v \in StopInputs THEN PyStr("stop")
    ELSE IF reason.v \in LengthInputs THEN PyStr("length")
    ELSE IF reason.v \in ContentFilterInputs THEN PyStr("content_filter")
    ELSE IF reason.v \in ToolCallsInputs THEN PyStr("tool_calls")
    ELSE reason

NotCoerced(i) ==
    ~JsonModeCoerced(convert_tool_call_to_json_mode, RawChoice(i)["message"].v)

\* C9 as claimed: there are as many Choices as raw choices, the i-th has
\* index i, and the finish reason of a choice that is not JSON-mode coerced
\* is the mapped raw finish_reason, else the mapped finish_details when
\* that is present, else "stop".
C9_FinishReasonAsClaimed ==
    CompletionReturned =>
        /\ Len(model_response_object.attrs["choices"].v) = NumRawChoices
        /\ \A i \in 1..NumRawChoices :
              /\ OutChoice(i).index = i - 1
              /\ NotCoerced(i) =>
                    OutChoice(i).finish_reason = Canonical(ClaimedRawReason(RawChoice(i)))

\* C9 amended: as claimed, but finish_details is used only when it is
\* present and not empty; an empty finish_details gives "stop".
C9_FinishReasonAmended ==
    CompletionReturned =>
        /\ Len(model_response_object.attrs["choices"].v) = NumRawChoices
        /\ \A i \in 1..NumRawChoices :
              /\ OutChoice(i).index = i - 1
              /\ NotCoerced(i) =>
                    OutChoice(i).finish_reason = Canonical(AmendedRawReason(RawChoice(i)))

\* Two choices: the second has no finish_reason and takes its finish_details.
C9_Witness ==
    /\ CompletionReturned
    /\ NumRawChoices = 2
    /\ IsNone(Get(RawChoice(2), "finish_reason"))
    /\ Get(RawChoice(2), "finish_details") = PyStr("MAX_TOKENS")
    /\ OutChoice(2).index = 1
    /\ OutChoice(2).finish_reason = PyStr("length")

\* What the caller can see of a coerced choice: the raw message had tool
\* calls and the Message has none.
CoercedObserved(i) ==
    /\ ~IsNone(Get(RawChoice(i)["message"].v, "tool_calls"))
    /\ IsNone(OutChoice(i).message.tool_calls)

RawCalls(i) == Get(RawChoice(i)["message"].v, "tool_calls")

\* C10: with the flag set a choice is coerced exactly when its repaired
\* tool-call list holds one call; a coerced choice has that call's argument
\* string as content, no tool calls and finish reason "stop"; a lone sentinel
\* call packing two pseudo-calls is not coerced, one packing a single
\* pseudo-call is coerced to that pseudo-call's JSON parameters; without the
\* flag nothing is coerced.
C10_JsonModeOnRepairedList ==
    CompletionReturned =>
        \A i \in 1..NumRawChoices :
            LET eff == EffectiveToolCalls(RawChoice(i)["message"].v)
                out == OutChoice(i)
            IN  /\ CoercedObserved(i) <=>
                       /\ FlagSet(convert_tool_call_to_json_mode)
                       /\ ~IsNone(eff)
                       /\ Len(eff.v) = 1
                       /\ eff.v[1].function.arguments # None
                /\ CoercedObserved(i) =>
                       /\ out.message.content = PyStr(eff.v[1].function.arguments)
                       /\ out.finish_reason = PyStr("stop")
                /\ RawCalls(i) = PyList(<<SentinelCall("call_1", 2)>>)
                       => /\ ~CoercedObserved(i)
                          /\ Len(out.message.tool_calls.v) = 2
                /\ (RawCalls(i) = PyList(<<SentinelCall("call_1", 1)>>)
                       /\ FlagSet(convert_tool_call_to_json_mode))
                       => /\ CoercedObserved(i)
                          /\ out.message.content = PyStr("{\"q\": 1}")
                /\ ~FlagSet(convert_tool_call_to_json_mode) => ~CoercedObserved(i)

\* A lone sentinel call packing one pseudo-call, coerced although the raw
\* finish reason was "tool_use".
C10_Witness ==
    /\ CompletionReturned
    /\ FlagSet(convert_tool_call_to_json_mode)
    /\ NumRawChoices = 1
    /\ RawCalls(1) = PyList(<<SentinelCall("call_1", 1)>>)
    /\ Get(RawChoice(1), "finish_reason") = PyStr("tool_use")
    /\ OutChoice(1).message.content = PyStr("{\"q\": 1}")
    /\ IsNone(OutChoice(1).message.tool_calls)
    /\ OutChoice(1).finish_reason = PyStr("stop")


(***************************************************************************)
(* C11: the two Streaming Adapters on the same payload.                    *)
(***************************************************************************)
BothRan ==
    /\ sync_pc \in {"yielded", "exhausted", "raised"}
    /\ async_pc \in {"yielded", "exhausted", "raised"}

\* The keys the adapters copy from the payload to the response.
CopiedKeys ==
    IF IsNone(payload_in) THEN {}
    ELSE {"id", "created", "system_fingerprint", "model"} \cap DOMAIN payload_in.v

\* C11: on the same payload the synchronous and the asynchronous adapter
\* produce a response together or fail together, and the two responses are
\* equal field by field: the same choices (index, delta content, role,
\* function_call, tool calls, finish reason, logprobs, enhancements), the
\* same usage and the same id, created, system_fingerprint and model copied
\* from the payload.
C11_AdaptersEquivalent ==
    BothRan =>
        /\ sync_result.kind = async_result.kind
        /\ sync_result.kind = "yield" =>
              LET s == sync_result.value.attrs
                  a == async_result.value.attrs
              IN  /\ s["choices"] = a["choices"]
                  /\ Get(s, "usage") = Get(a, "usage")
                  /\ \A k \in CopiedKeys : s[k] = a[k]

\* No choice of the payload carries enhancements or a list of raw (dict)
\* tool calls.
PlainStreamPayload ==
    \/ IsNone(payload_in)
    \/ "choices" \notin DOMAIN payload_in.v
    \/ payload_in.v["choices"].t # "list"
    \/ \A i \in 1..Len(payload_in.v["choices"].v) :
          LET choice == payload_in.v["choices"].v[i]
          IN  \/ NoMessage(choice)
              \/ /\ IsNone(Get(choice.v, "enhancements"))
                 /\ ~HasRawToolCalls(choice.v["message"].v)

\* The two adapters do agree on every payload whose choices carry neither
\* enhancements nor raw tool-call records.
AdaptersAgreeOnPlainPayloads == PlainStreamPayload => C11_AdaptersEquivalent

(***************************************************************************)
(* C12: the caller's input mappings.                                       *)
(***************************************************************************)
\* C12: every operation leaves the caller's inputs as they were: the
\* payload mapping handed to a Streaming Adapter (each choice's message and
\* raw tool-call records included) and the hidden_params mapping handed to
\* convert_to_model_response_object hold what they held before the call.
C12_InputsUnchanged ==
    /\ stream_payload = payload_in
    /\ hidden_params = hidden_params_in

(***************************************************************************)
(* C13: a call ends with a result or an error.                             *)
(***************************************************************************)
\* C13: a call of convert_to_model_response_object with a present,
\* error-free payload either raises or returns a response object (or the
\* streaming generator); it never returns nothing, whatever the response
\* kind and the class of the target.
C13_ResultOrRaise ==
    (/\ pc = "done"
     /\ ~IsNone(response_object)
     /\ ~HasErrorSurface(response_object))
    => \/ result.kind = "raise"
       \/ (result.kind = "return" /\ ~IsNone(result.value))

\* The same holds whenever the target is absent or of the class the
\* response kind asks for.
ResultOrRaiseWhenTargetFits ==
    (\/ TargetFitsKind
     \/ (response_type = "embedding" /\ IsInstance(target_in, "EmbeddingResponse"))
     \/ (response_type = "rerank" /\ IsInstance(target_in, "RerankResponse")))
    => C13_ResultOrRaise

====
